---- MODULE Spec2Model ----
(***************************************************************************)
(* A model of the calculator in src/main.rs: a line-buffered lexer, a      *)
(* recursive-descent parser that builds an AST, and a recursive evaluator, *)
(* driven by main.                                                         *)
(*                                                                         *)
(* The functions of the program are operators over a machine record m      *)
(*   buffer, offset : the Lexer's fields (buffer as a sequence of bytes)   *)
(*   stdin, eof     : the lines standard input still holds, and whether a  *)
(*                    read has found it at its end                         *)
(*   build          : "debug" or "release"                                 *)
(*   tok            : the Parser's lookahead token                         *)
(*   lexed          : the tokens Lexer::get_token has returned so far      *)
(*   panic          : NoPanic, or the panic that ended the program         *)
(* and the statements of main are the actions.                             *)
(***************************************************************************)
EXTENDS Integers, Sequences, FiniteSets, TLC

VARIABLES
  input,       \* what standard input held when the program started
  build,       \* "debug" or "release": how the program was compiled
  pc,          \* the statement of main that runs next
  stdin,       \* the lines standard input still holds
  eof,         \* whether a read_line has found standard input at its end
  lexer,       \* the Lexer: buffer and offset
  tok,         \* the Parser's lookahead token
  lexed,       \* the tokens Lexer::get_token has returned
  expression,  \* main's expression, the AST program returned
  out,         \* the lines written to standard output
  panic        \* the panic that ended the program, or NoPanic

vars == <<input, build, pc, stdin, eof, lexer, tok, lexed, expression, out, panic>>

(***************************************************************************)
(* Characters.  A char is a one-character string; NBSP stands for U+00A0,  *)
(* which is whitespace and two bytes long in UTF-8.  A buffer is a         *)
(* sequence of bytes: a char's first byte is the char, the others are Cont.*)
(***************************************************************************)
NBSP == "nbsp"
Cont == "cont"
NL == "\n"

Digits == {"0", "1", "2", "3", "4", "5", "6", "7", "8", "9"}

is_whitespace(c) == c \in {" ", NL, NBSP}

is_digit(c) == c \in Digits

len_utf8(c) == IF c = NBSP THEN 2 ELSE 1

to_digit(c) ==
  CASE c = "0" -> 0 [] c = "1" -> 1 [] c = "2" -> 2 [] c = "3" -> 3
    [] c = "4" -> 4 [] c = "5" -> 5 [] c = "6" -> 6 [] c = "7" -> 7
    [] c = "8" -> 8 [] c = "9" -> 9

RECURSIVE Encode(_)
\* The UTF-8 bytes of a sequence of chars.
Encode(cs) ==
  IF cs = <<>> THEN <<>>
  ELSE LET c == Head(cs)
       IN (IF len_utf8(c) = 2 THEN <<c, Cont>> ELSE <<c>>) \o Encode(Tail(cs))

(***************************************************************************)
(* Tokens and panics.                                                      *)
(***************************************************************************)
Token(type, text) == [type |-> type, text |-> text]
Num(t) == Token("Num", t)
Plus == Token("Plus", <<>>)
Minus == Token("Minus", <<>>)
Times == Token("Times", <<>>)
Divide == Token("Divide", <<>>)
LParen == Token("LParen", <<>>)
RParen == Token("RParen", <<>>)
Semi == Token("Semi", <<>>)
NoToken == Token("none", <<>>)

NoPanic == "none"
ReadPanic == "unable to read line"
CharPanic == "Tried to get a nonsensical character"
LexPanic == "unrecognized character"
SyntaxPanic == "Syntax error"
ParseIntPanic == "ParseIntError"
OverflowPanic == "arithmetic overflow"
DivZeroPanic == "attempt to divide by zero"

\* A line of standard input that read_line cannot return (it is not UTF-8).
BadLine == <<"invalid utf-8">>

Panicked(m) == m.panic # NoPanic

Fail(m, why) == [m EXCEPT !.panic = why]

(***************************************************************************)
(* LEXER                                                                   *)
(***************************************************************************)
\* io::stdin().read_line(&mut buffer) on an empty buffer: the next line with
\* its line break, nothing at end of stream (Ok(0)), Err on a bad line.
read_line(m, why) ==
  IF m.stdin = <<>> THEN [m EXCEPT !.buffer = <<>>, !.eof = TRUE]
  ELSE IF Head(m.stdin) = BadLine
       THEN Fail([m EXCEPT !.buffer = <<>>, !.stdin = Tail(m.stdin)], why)
       ELSE [m EXCEPT !.buffer = Head(m.stdin), !.stdin = Tail(m.stdin)]

\* Lexer::new
LexerNew(m) == [read_line(m, ReadPanic) EXCEPT !.offset = 0]

\* Whether Lexer::current finds a char at the offset.
HasCurrent(m) ==
  /\ m.offset < Len(m.buffer)
  /\ m.buffer[m.offset + 1] # Cont

\* Lexer::current, where it finds a char.
current(m) == m.buffer[m.offset + 1]

\* A mutant of advance: the offset is not reset after a new line is read.
advance_keeps_offset(m) ==
  IF Len(m.buffer) = 0 /\ m.build = "debug" THEN Fail(m, OverflowPanic)
  ELSE IF Len(m.buffer) # 0 /\ m.offset >= Len(m.buffer) - 1
  THEN read_line(m, ReadPanic)
  ELSE IF HasCurrent(m)
       THEN [m EXCEPT !.offset = m.offset + len_utf8(current(m))]
       ELSE Fail(m, CharPanic)

\* Lexer::advance.  buffer.len() - 1 is a usize: on an empty buffer it
\* panics in a debug build and wraps to usize::MAX in a release build.
advance(m) ==
  IF Len(m.buffer) = 0 /\ m.build = "debug" THEN Fail(m, OverflowPanic)
  ELSE IF Len(m.buffer) # 0 /\ m.offset >= Len(m.buffer) - 1
  THEN LET r == read_line(m, ReadPanic)
       IN IF Panicked(r) THEN r ELSE [r EXCEPT !.offset = 0]
  ELSE IF HasCurrent(m)
       THEN [m EXCEPT !.offset = m.offset + len_utf8(current(m))]
       ELSE Fail(m, CharPanic)

RECURSIVE SkipWhitespace(_)
\* get_token's first loop, from a state where c = self.current() is due.
SkipWhitespace(m) ==
  IF Panicked(m) THEN m
  ELSE IF ~HasCurrent(m) THEN Fail(m, CharPanic)
  ELSE IF is_whitespace(current(m)) THEN SkipWhitespace(advance(m))
  ELSE m

RECURSIVE ReadDigits(_, _)
\* A mutant of ReadDigits: the loop ends where there is no char to read.
ReadDigits_lenient(m, t) ==
  IF Panicked(m) THEN [m |-> m, t |-> t]
  ELSE IF ~HasCurrent(m) THEN [m |-> IF t = <<>> THEN Fail(m, CharPanic) ELSE m, t |-> t]
  ELSE IF is_digit(current(m)) THEN ReadDigits(advance(m), Append(t, current(m)))
  ELSE [m |-> m, t |-> t]

\* get_token's second loop: the state and the digits pushed to t.
ReadDigits(m, t) ==
  IF Panicked(m) THEN [m |-> m, t |-> t]
  ELSE IF ~HasCurrent(m) THEN [m |-> Fail(m, CharPanic), t |-> t]
  ELSE IF is_digit(current(m)) THEN ReadDigits(advance(m), Append(t, current(m)))
  ELSE [m |-> m, t |-> t]

\* A mutant of Classify: any other char ends the statement.
Classify_lenient(c) ==
  CASE c = "+" -> Plus
    [] c = "-" -> Minus
    [] c = "*" -> Times
    [] c = "/" -> Divide
    [] c = "(" -> LParen
    [] c = ")" -> RParen
    [] OTHER -> Semi

\* get_token's match on the character.
Classify(c) ==
  CASE c = "+" -> Plus
    [] c = "-" -> Minus
    [] c = "*" -> Times
    [] c = "/" -> Divide
    [] c = "(" -> LParen
    [] c = ")" -> RParen
    [] c = ";" -> Semi
    [] OTHER -> NoToken

Return(m, t) == [m EXCEPT !.tok = t, !.lexed = Append(m.lexed, t)]

\* Lexer::get_token, its result stored in the parser's tok (every call of
\* the program does that: Parser::new and Parser::get_token).
get_token(m) ==
  LET w == SkipWhitespace(m)
      d == ReadDigits(w, <<>>)
  IN IF Panicked(w) THEN w
     ELSE IF Panicked(d.m) THEN d.m
     ELSE IF Len(d.t) > 0 THEN Return(d.m, Num(d.t))
     ELSE LET c == current(d.m)
              a == advance(d.m)
          IN IF Panicked(a) THEN a
             ELSE IF Classify(c) = NoToken THEN Fail(a, LexPanic)
             ELSE Return(a, Classify(c))

(***************************************************************************)
(* PARSER                                                                  *)
(***************************************************************************)
I32_MAX == 2147483647
I32_MIN == -I32_MAX - 1

\* The abstract syntax tree.
ASTNum(x) == [tag |-> "Num", val |-> x]
ASTPlus(x, y) == [tag |-> "Plus", l |-> x, r |-> y]
ASTMinus(x, y) == [tag |-> "Minus", l |-> x, r |-> y]
ASTTimes(x, y) == [tag |-> "Times", l |-> x, r |-> y]
ASTDivide(x, y) == [tag |-> "Divide", l |-> x, r |-> y]
NoAST == [tag |-> "none"]

RECURSIVE parse_i32(_, _)
\* str::parse::<i32> of a string of digits, from the accumulator acc:
\* Err (ok = FALSE) when the number does not fit an i32.
parse_i32(t, acc) ==
  IF t = <<>> THEN [ok |-> TRUE, val |-> acc]
  ELSE LET d == to_digit(Head(t))
       IN IF acc > (I32_MAX - d) \div 10 THEN [ok |-> FALSE, val |-> 0]
          ELSE parse_i32(Tail(t), acc * 10 + d)

\* What a production returns: the machine after it and the tree it built.
Parsed(m, a) == [m |-> m, a |-> IF Panicked(m) THEN NoAST ELSE a]

\* Parser::eat
eat(m, t) == IF m.tok = t THEN get_token(m) ELSE Fail(m, SyntaxPanic)

RECURSIVE production(_, _, _)
\* A mutant of production: exp_ and term_ parse all that follows the operator
\* as the right operand, which nests a chain to the right.
production_right(p, m, a) ==
  IF Panicked(m) THEN Parsed(m, NoAST)
  ELSE CASE p = "exp" ->
         LET t == production("term", m, NoAST)
         IN production("exp_", t.m, t.a)
    [] p = "exp_" ->
         IF m.tok = Plus
         THEN LET s == production("exp", eat(m, Plus), NoAST)
              IN Parsed(s.m, ASTPlus(a, s.a))
         ELSE IF m.tok = Minus
         THEN LET s == production("exp", eat(m, Minus), NoAST)
              IN Parsed(s.m, ASTMinus(a, s.a))
         ELSE Parsed(m, a)
    [] p = "term" ->
         LET f == production("factor", m, NoAST)
         IN production("term_", f.m, f.a)
    [] p = "term_" ->
         IF m.tok = Times
         THEN LET g == production("term", eat(m, Times), NoAST)
              IN Parsed(g.m, ASTTimes(a, g.a))
         ELSE IF m.tok = Divide
         THEN LET g == production("term", eat(m, Divide), NoAST)
              IN Parsed(g.m, ASTDivide(a, g.a))
         ELSE Parsed(m, a)
    [] p = "factor" ->
         IF m.tok.type = "Num"
         THEN LET g == get_token(m)
                  x == parse_i32(m.tok.text, 0)
              IN IF Panicked(g) THEN Parsed(g, NoAST)
                 ELSE IF ~x.ok THEN Parsed(Fail(g, ParseIntPanic), NoAST)
                 ELSE Parsed(g, ASTNum(x.val))
         ELSE IF m.tok = LParen
         THEN LET rc == production("exp", eat(m, LParen), NoAST)
              IN IF Panicked(rc.m) THEN rc ELSE Parsed(eat(rc.m, RParen), rc.a)
         ELSE Parsed(Fail(m, SyntaxPanic), NoAST)

\* The grammar productions of the parser, which call each other: p names
\* the production, m is the machine it starts in and a its AST argument
\* (exp_'s t, term_'s f; NoAST for exp, term and factor).
production(p, m, a) ==
  IF Panicked(m) THEN Parsed(m, NoAST)
  ELSE CASE p = "exp" ->
         LET t == production("term", m, NoAST)
         IN production("exp_", t.m, t.a)
    [] p = "exp_" ->
         IF m.tok = Plus
         THEN LET s == production("term", eat(m, Plus), NoAST)
              IN production("exp_", s.m, ASTPlus(a, s.a))
         ELSE IF m.tok = Minus
         THEN LET s == production("term", eat(m, Minus), NoAST)
              IN production("exp_", s.m, ASTMinus(a, s.a))
         ELSE Parsed(m, a)
    [] p = "term" ->
         LET f == production("factor", m, NoAST)
         IN production("term_", f.m, f.a)
    [] p = "term_" ->
         IF m.tok = Times
         THEN LET g == production("factor", eat(m, Times), NoAST)
              IN production("term_", g.m, ASTTimes(a, g.a))
         ELSE IF m.tok = Divide
         THEN LET g == production("factor", eat(m, Divide), NoAST)
              IN production("term_", g.m, ASTDivide(a, g.a))
         ELSE Parsed(m, a)
    [] p = "factor" ->
         IF m.tok.type = "Num"
         THEN LET g == get_token(m)
                  x == parse_i32(m.tok.text, 0)
              IN IF Panicked(g) THEN Parsed(g, NoAST)
                 ELSE IF ~x.ok THEN Parsed(Fail(g, ParseIntPanic), NoAST)
                 ELSE Parsed(g, ASTNum(x.val))
         ELSE IF m.tok = LParen
         THEN LET rc == production("exp", eat(m, LParen), NoAST)
              IN IF Panicked(rc.m) THEN rc ELSE Parsed(eat(rc.m, RParen), rc.a)
         ELSE Parsed(Fail(m, SyntaxPanic), NoAST)

\* Parser::exp
exp(m) == production("exp", m, NoAST)

\* Parser::semi
semi(m, a) == Parsed(m, a)

\* Parser::program
program(m) ==
  LET a == exp(m)
  IN IF Panicked(a.m) THEN a ELSE semi(a.m, a.a)

(***************************************************************************)
(* INTERPRETER                                                             *)
(***************************************************************************)
\* Whether x + y leaves the i32 range, decided without leaving it.
AddOverflows(x, y) ==
  \/ y > 0 /\ x > I32_MAX - y
  \/ y < 0 /\ x < I32_MIN - y

\* x + y modulo 2^32, as a two's complement i32.
wrapping_add(x, y) ==
  IF y > 0 /\ x > I32_MAX - y THEN ((x - I32_MAX) + (y - I32_MAX)) - 2
  ELSE IF y < 0 /\ x < I32_MIN - y THEN ((x - I32_MIN) + (y - I32_MIN))
  ELSE x + y

\* -y modulo 2^32.
wrapping_neg(y) == IF y = I32_MIN THEN I32_MIN ELSE -y

SubOverflows(x, y) ==
  \/ y < 0 /\ x > I32_MAX + y
  \/ y > 0 /\ x < I32_MIN + y

wrapping_sub(x, y) ==
  IF y = I32_MIN THEN wrapping_add(wrapping_add(x, I32_MAX), 1)
  ELSE wrapping_add(x, -y)

Abs(x) == IF x < 0 THEN -x ELSE x

MulOverflows(x, y) ==
  IF x = 0 \/ y = 0 THEN FALSE
  ELSE IF x = I32_MIN THEN y # 1
  ELSE IF y = I32_MIN THEN x # 1
  ELSE IF (x > 0) = (y > 0) THEN Abs(x) > I32_MAX \div Abs(y)
  ELSE IF Abs(y) = 1 THEN FALSE
  ELSE Abs(x) > (I32_MAX \div Abs(y)) + (IF (I32_MAX % Abs(y)) + 1 = Abs(y) THEN 1 ELSE 0)

RECURSIVE wrapping_mul(_, _)
\* x * y modulo 2^32, by doubling over the two's complement bits of y.
wrapping_mul(x, y) ==
  IF y = 0 THEN 0
  ELSE IF y = -1 THEN wrapping_neg(x)
  ELSE LET h == wrapping_mul(x, y \div 2)
       IN wrapping_add(wrapping_add(h, h), IF y % 2 = 1 THEN x ELSE 0)

\* A mutant of i32_div: the quotient rounded down.
i32_div_floor(x, y) == x \div y

\* i32 division: the quotient truncated toward zero (y # 0, no overflow).
i32_div(x, y) ==
  IF y = I32_MIN THEN (IF x = I32_MIN THEN 1 ELSE 0)
  ELSE LET f == x \div Abs(y)
           q == IF x < 0 /\ x % Abs(y) # 0 THEN f + 1 ELSE f
       IN IF y < 0 THEN -q ELSE q

Value(v) == [panic |-> NoPanic, val |-> v]
Abort(why) == [panic |-> why, val |-> 0]

\* A mutant of Apply: a division by zero yields 0.
Apply_zero(tag, x, y, b) ==
  CASE tag = "Plus" ->
         IF AddOverflows(x, y) /\ b = "debug" THEN Abort(OverflowPanic)
         ELSE Value(wrapping_add(x, y))
    [] tag = "Minus" ->
         IF SubOverflows(x, y) /\ b = "debug" THEN Abort(OverflowPanic)
         ELSE Value(wrapping_sub(x, y))
    [] tag = "Times" ->
         IF MulOverflows(x, y) /\ b = "debug" THEN Abort(OverflowPanic)
         ELSE Value(wrapping_mul(x, y))
    [] tag = "Divide" ->
         IF y = 0 THEN Value(0)
         ELSE IF x = I32_MIN /\ y = -1 THEN Abort(OverflowPanic)
         ELSE Value(i32_div(x, y))

\* An i32 operation on two values: overflow panics in a debug build and
\* wraps in a release build; division by zero and MIN / -1 always panic.
Apply(tag, x, y, b) ==
  CASE tag = "Plus" ->
         IF AddOverflows(x, y) /\ b = "debug" THEN Abort(OverflowPanic)
         ELSE Value(wrapping_add(x, y))
    [] tag = "Minus" ->
         IF SubOverflows(x, y) /\ b = "debug" THEN Abort(OverflowPanic)
         ELSE Value(wrapping_sub(x, y))
    [] tag = "Times" ->
         IF MulOverflows(x, y) /\ b = "debug" THEN Abort(OverflowPanic)
         ELSE Value(wrapping_mul(x, y))
    [] tag = "Divide" ->
         IF y = 0 THEN Abort(DivZeroPanic)
         ELSE IF x = I32_MIN /\ y = -1 THEN Abort(OverflowPanic)
         ELSE Value(i32_div(x, y))

RECURSIVE evaluate(_, _)
\* evaluate, in build b: the left operand first, then the right one.
evaluate(a, b) ==
  IF a.tag = "Num" THEN Value(a.val)
  ELSE LET x == evaluate(a.l, b)
           y == evaluate(a.r, b)
       IN IF x.panic # NoPanic THEN x
          ELSE IF y.panic # NoPanic THEN y
          ELSE Apply(a.tag, x.val, y.val, b)

RECURSIVE Decimal(_)
\* The decimal digits of n >= 0.
Decimal(n) ==
  LET d == <<"0", "1", "2", "3", "4", "5", "6", "7", "8", "9">>[(n % 10) + 1]
  IN IF n < 10 THEN <<d>> ELSE Append(Decimal(n \div 10), d)

\* i32's Display: what println!("{}", x) writes before the line break.
Display(x) ==
  IF x >= 0 THEN Decimal(x)
  ELSE IF x = I32_MIN THEN <<"-">> \o Decimal(I32_MAX \div 10) \o <<"8">>
  ELSE <<"-">> \o Decimal(-x)

(***************************************************************************)
(* Standard input.  An input is a sequence of lines, each a sequence of    *)
(* bytes ending in a line break, except that the last line may lack one;   *)
(* BadLine is a line read_line fails on.                                   *)
(***************************************************************************)
MaxText == 3
MaxOps == 2
MaxGap == 1

RECURSIVE SeqsOfLen(_, _)
SeqsOfLen(S, n) ==
  IF n = 0 THEN {<<>>}
  ELSE {Append(s, c) : s \in SeqsOfLen(S, n - 1), c \in S}

SeqsUpTo(S, n) == UNION {SeqsOfLen(S, k) : k \in 0..n}

RECURSIVE SplitLines(_, _)
\* The lines of a text, cur being the line begun so far.
SplitLines(cs, cur) ==
  IF cs = <<>> THEN (IF cur = <<>> THEN <<>> ELSE <<cur>>)
  ELSE IF Head(cs) = NL THEN <<Append(cur, NL)>> \o SplitLines(Tail(cs), <<>>)
  ELSE SplitLines(Tail(cs), Append(cur, Head(cs)))

\* Standard input holding the text cs.
Stdin(cs) == LET ls == SplitLines(cs, <<>>) IN [i \in 1..Len(ls) |-> Encode(ls[i])]

\* Every text of at most MaxText chars over these chars.
TextChars == {"7", "+", "(", ")", ";", " ", NL, "&", NBSP}
Texts == SeqsUpTo(TextChars, MaxText)

\* Chains x0 op1 x1 ... opn xn; of at most MaxOps operators, then a ';'.
Literals == {"0", "7"}
Operators == {"+", "-", "*", "/"}

RECURSIVE Chains(_)
Chains(n) ==
  IF n = 0 THEN {<<x>> : x \in Literals}
  ELSE {c \o <<op, x>> : c \in Chains(n - 1), op \in Operators, x \in Literals}

ChainTexts == UNION {{c \o <<";", NL>> : c \in Chains(n)} : n \in 0..MaxOps}

\* A chain with one operand in parentheses.
GroupTexts ==
  {<<"(">> \o c \o <<")", op, x, ";", NL>> :
     c \in Chains(1), op \in Operators, x \in Literals}
  \cup {<<x, op, "(">> \o c \o <<")", ";", NL>> :
     c \in Chains(1), op \in Operators, x \in Literals}

\* What may stand between two tokens: nothing, a space, or a line break
\* followed by at most MaxGap lines that are empty or hold one space.
RECURSIVE BlankLines(_)
BlankLines(n) ==
  IF n = 0 THEN {<<>>}
  ELSE {b \o l : b \in BlankLines(n - 1), l \in {<<NL>>, <<" ", NL>>}}

Gaps == {<<>>, <<" ">>} \cup UNION {{<<NL>> \o b : b \in BlankLines(k)} : k \in 0..MaxGap}

\* The statements 7 op 2 ; and ( 7 ) ; with every choice of gaps between the
\* tokens, the last line with or without its line break.
LaidOut ==
  {<<"7">> \o g1 \o <<op>> \o g2 \o <<"2">> \o g3 \o <<";">> \o e :
     op \in {"-", "/"}, g1 \in Gaps, g2 \in Gaps, g3 \in Gaps, e \in {<<>>, <<NL>>}}
  \cup {<<"(">> \o g1 \o <<"7">> \o g2 \o <<")">> \o g3 \o <<";">> \o e :
     g1 \in Gaps, g2 \in Gaps, g3 \in Gaps, e \in {<<>>, <<NL>>}}

\* Two statements, one per line.
TwoStatements ==
  {c \o <<";", NL>> \o d \o <<";", NL>> : c \in Chains(1), d \in {<<"2", "*", "2">>, <<"7">>}}

Examples ==
  { <<"8", "-", "3", "-", "2", ";", NL>>,
    <<"2", "+", "3", "*", "4", ";", NL>>,
    <<"(", "2", "+", "3", ")", "*", "4", ";", NL>>,
    <<"(", "(", "1", "+", "2", ")", "*", "(", "3", "+", "4", ")", ")", ";", NL>>,
    <<"7", "/", "2", ";", NL>>,
    <<"-", "7", "/", "2", ";", NL>>,
    <<"(", "0", "-", "7", ")", "/", "2", ";", NL>>,
    <<"5", "/", "0", ";", NL>>,
    <<"5", "/", "(", "2", "-", "2", ")", ";", NL>>,
    <<"7", "-", "5", "/", "(", "2", "-", "2", ")", ";", NL>>,
    <<"1", " ", "+", NL, "2", ";", NL>>,
    <<"1", "+", "1", ";", NL, "2", "*", "2", ";", NL>>,
    <<"1", "&", "2", ";", NL>>,
    <<"1", ";", NL, "&", NL>>,
    <<"1", " ", "2", "&", ";", NL>>,
    <<"1", " ", "2", ";", NL>>,
    <<"1", ")", ";", NL>>,
    <<"1", "2", "+", "3", "0", ";">>,
    <<"2", "1", "4", "7", "4", "8", "3", "6", "4", "7", ";", NL>>,
    <<"2", "1", "4", "7", "4", "8", "3", "6", "4", "8", ";", NL>>,
    <<"2", "1", "4", "7", "4", "8", "3", "6", "4", "7", "+", "1", ";", NL>>,
    <<"0", "-", "2", "1", "4", "7", "4", "8", "3", "6", "4", "7", "-", "1", ";", NL>>,
    <<"0", "-", "2", "1", "4", "7", "4", "8", "3", "6", "4", "7", "-", "2", ";", NL>>,
    <<"(", "0", "-", "2", "1", "4", "7", "4", "8", "3", "6", "4", "7", "-", "1",
      ")", "/", "(", "0", "-", "1", ")", ";", NL>>,
    <<"6", "5", "5", "3", "6", "*", "6", "5", "5", "3", "6", ";", NL>>,
    <<"6", "5", "5", "3", "6", "*", "3", "2", "7", "6", "8", ";", NL>>,
    <<"7", "/", "(", "6", "5", "5", "3", "6", "*", "6", "5", "5", "3", "6", ")", ";", NL>> }

\* Inputs on which a read fails.
BadInputs ==
  { <<BadLine>>, <<Encode(<<"1", "+", NL>>), BadLine>>,
    <<Encode(<<"1", NL>>), BadLine>>, <<Encode(<<"1", ";", NL>>), BadLine>> }

Inputs ==
  {Stdin(cs) : cs \in Texts \cup ChainTexts \cup GroupTexts \cup LaidOut
                        \cup TwoStatements \cup Examples}
  \cup BadInputs

(***************************************************************************)
(* MAIN                                                                    *)
(***************************************************************************)
PromptLine == <<"Enter an arithmetic expression using integers followed by a ;">>

Machine ==
  [buffer |-> lexer.buffer, offset |-> lexer.offset, stdin |-> stdin, eof |-> eof,
   tok |-> tok, lexed |-> lexed, panic |-> panic, build |-> build]

\* The state after a step of main that leaves the machine m, at after if it
\* did not panic.
Step(m, after) ==
  /\ lexer' = [buffer |-> m.buffer, offset |-> m.offset]
  /\ stdin' = m.stdin
  /\ eof' = m.eof
  /\ tok' = m.tok
  /\ lexed' = m.lexed
  /\ panic' = m.panic
  /\ pc' = IF Panicked(m) THEN "panicked" ELSE after

\* main as a function: what a run on the input inp, in build b, lexes and
\* prints, and the panic that ends it.
Run(inp, b) ==
  LET new == [buffer |-> <<>>, offset |-> 0, stdin |-> inp, eof |-> FALSE,
              tok |-> NoToken, lexed |-> <<>>, panic |-> NoPanic, build |-> b]
      lex == LexerNew(new)
      par == IF Panicked(lex) THEN lex ELSE get_token(lex)
      prg == program(par)
      val == IF Panicked(prg.m) THEN Abort(prg.m.panic) ELSE evaluate(prg.a, b)
  IN [lexed |-> prg.m.lexed,
      panic |-> val.panic,
      out |-> (IF Panicked(par) THEN <<>> ELSE <<PromptLine>>)
                \o (IF val.panic = NoPanic THEN <<Display(val.val)>> ELSE <<>>)]

Init ==
  /\ input \in Inputs
  /\ build \in {"debug", "release"}
  /\ pc = "start"
  /\ stdin = input
  /\ eof = FALSE
  /\ lexer = [buffer |-> <<>>, offset |-> 0]
  /\ tok = NoToken
  /\ lexed = <<>>
  /\ expression = NoAST
  /\ out = <<>>
  /\ panic = NoPanic

\* let mut lexer = Lexer::new();
MainLexer ==
  /\ pc = "start"
  /\ Step(LexerNew(Machine), "lexer")
  /\ UNCHANGED <<input, build, expression, out>>

\* let mut parser = Parser::new(&mut lexer);
MainParser ==
  /\ pc = "lexer"
  /\ Step(get_token(Machine), "parser")
  /\ UNCHANGED <<input, build, expression, out>>

\* println!("Enter an arithmetic expression using integers followed by a ;");
MainPrompt ==
  /\ pc = "parser"
  /\ out' = Append(out, PromptLine)
  /\ pc' = "prompted"
  /\ UNCHANGED <<input, build, stdin, eof, lexer, tok, lexed, expression, panic>>

\* let expression = parser.program();
MainProgram ==
  /\ pc = "prompted"
  /\ LET r == program(Machine)
     IN /\ Step(r.m, "parsed")
        /\ expression' = r.a
  /\ UNCHANGED <<input, build, out>>

\* println!("{}", evaluate(expression));
MainPrint ==
  /\ pc = "parsed"
  /\ LET v == evaluate(expression, build)
     IN /\ panic' = v.panic
        /\ pc' = IF v.panic # NoPanic THEN "panicked" ELSE "exit"
        /\ out' = IF v.panic # NoPanic THEN out ELSE Append(out, Display(v.val))
  /\ UNCHANGED <<input, build, stdin, eof, lexer, tok, lexed, expression>>

Next == MainLexer \/ MainParser \/ MainPrompt \/ MainProgram \/ MainPrint

Spec == Init /\ [][Next]_vars

Terminated == pc \in {"exit", "panicked"}

(***************************************************************************)
(* The reference the claims are stated against: the text of the input, its *)
(* tokens read off the text with no notion of lines, and the value of an   *)
(* expression under the grammar                                            *)
(*    exp := term (('+'|'-') term)*    term := factor (('*'|'/') factor)*  *)
(*    factor := NUMBER | '(' exp ')'                                       *)
(* with exact integer arithmetic.                                          *)
(***************************************************************************)
RECURSIVE Flatten(_)
Flatten(ls) ==
  IF ls = <<>> \/ Head(ls) = BadLine THEN <<>>
  ELSE SelectSeq(Head(ls), LAMBDA b : b # Cont) \o Flatten(Tail(ls))

\* The chars of the input, up to the first line that cannot be read.
InputText == Flatten(input)

RefToken(c) ==
  CASE c = "+" -> Plus [] c = "-" -> Minus [] c = "*" -> Times [] c = "/" -> Divide
    [] c = "(" -> LParen [] c = ")" -> RParen [] c = ";" -> Semi

RefBlank(c) == c \in {" ", NL, NBSP}

RefKnown(c) == c \in {"+", "-", "*", "/", "(", ")", ";"}

\* The end of the run of digits that starts at i.
RECURSIVE RunEnd(_, _)
RunEnd(cs, i) == IF i < Len(cs) /\ cs[i + 1] \in Digits THEN RunEnd(cs, i + 1) ELSE i

\* The tokens of cs from its i-th char on, up to a char that starts no
\* token (bad = its index, 0 if there is none).
RECURSIVE RefLex(_, _, _)
RefLex(cs, i, acc) ==
  IF i > Len(cs) THEN [toks |-> acc, bad |-> 0]
  ELSE IF RefBlank(cs[i]) THEN RefLex(cs, i + 1, acc)
  ELSE IF cs[i] \in Digits
       THEN RefLex(cs, RunEnd(cs, i) + 1, Append(acc, Num(SubSeq(cs, i, RunEnd(cs, i)))))
  ELSE IF RefKnown(cs[i]) THEN RefLex(cs, i + 1, Append(acc, RefToken(cs[i])))
  ELSE [toks |-> acc, bad |-> i]

InputTokens == RefLex(InputText, 1, <<>>).toks

\* The index of the first ';' among the tokens ts, 0 if there is none.
FirstSemi(ts) ==
  IF \E i \in 1..Len(ts) : ts[i] = Semi
  THEN CHOOSE i \in 1..Len(ts) : ts[i] = Semi /\ \A j \in 1..(i - 1) : ts[j] # Semi
  ELSE 0

\* The tokens of the first statement, without its ';'.
Statement == SubSeq(InputTokens, 1, FirstSemi(InputTokens) - 1)

\* How many '(' are open before the i-th token of ts.
Depth(ts, i) ==
  Cardinality({j \in 1..(i - 1) : ts[j] = LParen})
    - Cardinality({j \in 1..(i - 1) : ts[j] = RParen})

\* The last token of ts among ops outside every parenthesis, 0 if none.
LastTop(ts, ops) ==
  LET at == {i \in 1..Len(ts) : ts[i] \in ops /\ Depth(ts, i) = 0}
  IN IF at = {} THEN 0 ELSE CHOOSE i \in at : \A j \in at : j <= i

\* A value of the reference: valid (the text is an expression), exact (no
\* value left the i32 range and no divisor was zero), the value, and divzero
\* (some '/' has a right operand whose value is exactly 0).
RefNone == [valid |-> FALSE, exact |-> FALSE, val |-> 0, divzero |-> FALSE]
RefUndefined(dz) == [valid |-> TRUE, exact |-> FALSE, val |-> 0, divzero |-> dz]
RefValue(v) == [valid |-> TRUE, exact |-> TRUE, val |-> v, divzero |-> FALSE]

RECURSIVE RefNumber(_)
\* The number a string of digits denotes, if it is at most I32_MAX.
RefNumber(t) ==
  IF Len(t) = 1 THEN RefValue(to_digit(t[1]))
  ELSE LET h == RefNumber(SubSeq(t, 1, Len(t) - 1))
           d == to_digit(t[Len(t)])
       IN IF h.exact /\ (h.val < I32_MAX \div 10
                        \/ (h.val = I32_MAX \div 10 /\ d <= I32_MAX % 10))
          THEN RefValue(10 * h.val + d)
          ELSE RefUndefined(FALSE)

\* Whether x * y, for i32 x and y, is an i32.
RefProductFits(x, y) ==
  \/ x = 0 \/ y = 0 \/ x = 1 \/ y = 1
  \/ /\ x # I32_MIN /\ y # I32_MIN
     /\ LET a == IF x < 0 THEN -x ELSE x
            b == IF y < 0 THEN -y ELSE y
        IN \/ a <= I32_MAX \div b
           \/ (x < 0) # (y < 0) /\ a = (I32_MAX \div b) + 1 /\ I32_MAX % b = b - 1

\* The quotient of x by y # 0, rounded toward zero.
RefQuotient(x, y) ==
  IF y = I32_MIN THEN (IF x = I32_MIN THEN 1 ELSE 0)
  ELSE LET floor == x \div y
       IN IF floor < 0 /\ x % (IF y < 0 THEN -y ELSE y) # 0 THEN floor + 1 ELSE floor

\* Whether x op y is an i32 in exact arithmetic.
RefDefined(op, x, y) ==
  CASE op = "Plus" -> ~((y > 0 /\ x > I32_MAX - y) \/ (y < 0 /\ x < I32_MIN - y))
    [] op = "Minus" -> ~((y < 0 /\ x > I32_MAX + y) \/ (y > 0 /\ x < I32_MIN + y))
    [] op = "Times" -> RefProductFits(x, y)
    [] op = "Divide" -> y # 0 /\ ~(x = I32_MIN /\ y = -1)

\* x op y in exact arithmetic, op being "Plus", "Minus", "Times" or "Divide".
RefApply(op, x, y) ==
  LET dz == x.divzero \/ y.divzero \/ (op = "Divide" /\ y.exact /\ y.val = 0)
  IN IF ~(x.valid /\ y.valid) THEN RefNone
     ELSE IF ~(x.exact /\ y.exact) THEN RefUndefined(dz)
     ELSE IF ~RefDefined(op, x.val, y.val) THEN RefUndefined(dz)
     ELSE CASE op = "Plus" -> RefValue(x.val + y.val)
            [] op = "Minus" -> RefValue(x.val - y.val)
            [] op = "Times" -> RefValue(x.val * y.val)
            [] op = "Divide" -> RefValue(RefQuotient(x.val, y.val))

RECURSIVE RefExp(_), RefTerm(_), RefFactor(_)
\* The value of the tokens ts as an exp: the last '+' or '-' outside every
\* parenthesis splits it into an exp and a term.
RefExp(ts) ==
  LET i == LastTop(ts, {Plus, Minus})
  IN IF i = 0 THEN RefTerm(ts)
     ELSE RefApply(ts[i].type, RefExp(SubSeq(ts, 1, i - 1)), RefTerm(SubSeq(ts, i + 1, Len(ts))))

\* ... as a term: the last '*' or '/' outside every parenthesis splits it
\* into a term and a factor.
RefTerm(ts) ==
  LET i == LastTop(ts, {Times, Divide})
  IN IF i = 0 THEN RefFactor(ts)
     ELSE RefApply(ts[i].type, RefTerm(SubSeq(ts, 1, i - 1)), RefFactor(SubSeq(ts, i + 1, Len(ts))))

\* ... as a factor: a number, or an exp in parentheses.
RefFactor(ts) ==
  IF Len(ts) = 1 /\ ts[1].type = "Num" THEN RefNumber(ts[1].text)
  ELSE IF Len(ts) >= 3 /\ ts[1] = LParen /\ ts[Len(ts)] = RParen
       THEN RefExp(SubSeq(ts, 2, Len(ts) - 1))
  ELSE RefNone

\* The input starts with a valid statement: an expression, then a ';'.
ValidStatement == FirstSemi(InputTokens) > 0 /\ RefExp(Statement).valid

\* ... all of whose values are i32 values and whose divisors are not zero.
ExactStatement == ValidStatement /\ RefExp(Statement).exact

\* The result lines written: all lines but the prompt.
Results == SelectSeq(out, LAMBDA l : l # PromptLine)

RECURSIVE RefDecimal(_, _)
\* The integer the digits l show, negated if sign is -1.
RefDecimal(l, sign) ==
  IF l = <<>> THEN 0
  ELSE 10 * RefDecimal(SubSeq(l, 1, Len(l) - 1), sign) + sign * to_digit(l[Len(l)])

\* The integer a result line shows.
RefReadDecimal(l) ==
  IF l # <<>> /\ Head(l) = "-" THEN RefDecimal(Tail(l), -1) ELSE RefDecimal(l, 1)

(***************************************************************************)
(* The claims.                                                             *)
(***************************************************************************)
\* The text cs is what the input holds.
InputIs(cs) == input = Stdin(cs)

\* C1: when the input starts with a valid statement whose literals and
\* intermediate values are i32 values and whose divisors are not zero, the
\* program ends normally having printed one result line, which shows the
\* value of the expression under the grammar's precedence with division
\* truncated toward zero.
C1_PrintsValue ==
  (Terminated /\ ExactStatement) =>
    /\ pc = "exit"
    /\ Len(Results) = 1
    /\ RefReadDecimal(Results[1]) = RefExp(Statement).val

\* (0-7)/2; has printed -3.
C1_Witness ==
  /\ InputIs(<<"(", "0", "-", "7", ")", "/", "2", ";", NL>>)
  /\ ExactStatement
  /\ pc = "exit"
  /\ Results = << <<"-", "3">> >>

\* The tokens ts are x0 op1 x1 ... opn xn, n >= 1, with every opi in ops.
IsChain(ts, ops) ==
  /\ Len(ts) >= 3
  /\ Len(ts) % 2 = 1
  /\ \A i \in 1..Len(ts) :
       IF i % 2 = 1 THEN ts[i].type = "Num" /\ RefNumber(ts[i].text).exact
       ELSE ts[i] \in ops

\* The first statement is a chain of operators of one precedence.
ChainStatement ==
  /\ FirstSemi(InputTokens) > 0
  /\ IsChain(Statement, {Plus, Minus}) \/ IsChain(Statement, {Times, Divide})

RECURSIVE LeftNested(_)
\* The tree ((x0 op1 x1) op2 x2) ... of a chain.
LeftNested(ts) ==
  LET x == ASTNum(RefNumber(ts[Len(ts)].text).val)
  IN IF Len(ts) = 1 THEN x
     ELSE [tag |-> ts[Len(ts) - 1].type, l |-> LeftNested(SubSeq(ts, 1, Len(ts) - 2)), r |-> x]

RECURSIVE LeftFold(_)
\* The value of a chain folded from the left.
LeftFold(ts) ==
  LET x == RefNumber(ts[Len(ts)].text)
  IN IF Len(ts) = 1 THEN x
     ELSE RefApply(ts[Len(ts) - 1].type, LeftFold(SubSeq(ts, 1, Len(ts) - 2)), x)

\* C2: for a chain of operators of one precedence, program returns the
\* left-nested tree, and the value printed is the left fold of the chain.
C2_LeftAssociative ==
  (ChainStatement /\ pc \in {"parsed", "exit", "panicked"}) =>
    /\ expression = LeftNested(Statement)
    /\ (Terminated /\ LeftFold(Statement).exact) =>
         /\ pc = "exit"
         /\ Len(Results) = 1
         /\ RefReadDecimal(Results[1]) = LeftFold(Statement).val

\* 8-3-2; has printed 3, from the tree (8-3)-2.
C2_Witness ==
  /\ InputIs(<<"8", "-", "3", "-", "2", ";", NL>>)
  /\ ChainStatement
  /\ pc = "exit"
  /\ expression = ASTMinus(ASTMinus(ASTNum(8), ASTNum(3)), ASTNum(2))
  /\ Results = << <<"3">> >>

RECURSIVE Statements(_)
\* The statements of the tokens ts, each without its ';'.
Statements(ts) ==
  IF FirstSemi(ts) = 0 THEN <<>>
  ELSE <<SubSeq(ts, 1, FirstSemi(ts) - 1)>> \o Statements(SubSeq(ts, FirstSemi(ts) + 1, Len(ts)))

\* The input is one or more valid statements with exact values, and
\* nothing else.
ValidStatements ==
  /\ \A i \in 1..Len(input) : input[i] # BadLine
  /\ RefLex(InputText, 1, <<>>).bad = 0
  /\ InputTokens # <<>>
  /\ InputTokens[Len(InputTokens)] = Semi
  /\ \A i \in 1..Len(Statements(InputTokens)) :
       RefExp(Statements(InputTokens)[i]).valid /\ RefExp(Statements(InputTokens)[i]).exact

\* C3: for an input of k valid statements the program has printed, when it
\* ends, exactly k result lines, the i-th showing the value of the i-th
\* statement.
C3_EveryStatementPrinted ==
  (Terminated /\ ValidStatements) =>
    /\ Len(Results) = Len(Statements(InputTokens))
    /\ \A i \in 1..Len(Results) :
         RefReadDecimal(Results[i]) = RefExp(Statements(InputTokens)[i]).val

\* C4: when the lookahead after a complete top-level expression is not ';',
\* the program ends with a fatal error and prints no result line.
C4_MissingSemiIsFatal ==
  (Terminated /\ expression # NoAST /\ tok # Semi) =>
    /\ pc = "panicked"
    /\ Results = <<>>

\* C5: when the first statement is valid and holds a '/' whose right operand
\* has the value 0, the program ends with a fatal error and prints no result
\* line.
C5_DivisionByZeroIsFatal ==
  (Terminated /\ ValidStatement /\ RefExp(Statement).divzero) =>
    /\ pc = "panicked"
    /\ Results = <<>>

\* 5/(2-2); has ended in the division's panic.
C5_Witness ==
  /\ InputIs(<<"5", "/", "(", "2", "-", "2", ")", ";", NL>>)
  /\ ValidStatement /\ RefExp(Statement).divzero
  /\ pc = "panicked"
  /\ panic = DivZeroPanic
  /\ out = <<PromptLine>>

\* The text cs on one line: each line break replaced by a space, and one
\* line break at the end.
OneLine(cs) == [i \in 1..Len(cs) |-> IF cs[i] = NL THEN " " ELSE cs[i]] \o <<NL>>

\* How many lines have been read.
LinesRead == Len(input) - Len(stdin)

\* The line of the input that holds the first ';'.
LineOfSemi ==
  LET at == CHOOSE i \in 1..Len(InputText) :
              InputText[i] = ";" /\ \A j \in 1..(i - 1) : InputText[j] # ";"
  IN 1 + Cardinality({j \in 1..at : InputText[j] = NL})

\* C6: a valid statement laid out over several lines, blank lines among
\* them, is lexed to the tokens of its text and ends as the same text on one
\* line does, with the same tokens lexed and the same lines printed; the
\* lines read are those up to the one that holds the ';'.
C6_LineBreaksInsignificant ==
  (Terminated /\ ValidStatement) =>
    /\ lexed = SubSeq(InputTokens, 1, FirstSemi(InputTokens))
    /\ lexed = Run(Stdin(OneLine(InputText)), build).lexed
    /\ out = Run(Stdin(OneLine(InputText)), build).out
    /\ panic = Run(Stdin(OneLine(InputText)), build).panic
    /\ LinesRead = LineOfSemi

\* 7 - 2 ; over four lines, one of them blank, has printed 5.
C6_Witness ==
  /\ InputIs(<<"7", NL, " ", NL, "-", NL, "2", ";", NL>>)
  /\ ValidStatement
  /\ pc = "exit"
  /\ LinesRead = 4
  /\ Results = << <<"5">> >>

\* C7: the prompt is the first line written, before any line is read and
\* before any token is lexed.
C7_PromptFirst ==
  (LinesRead > 0 \/ eof \/ lexed # <<>>) => (out # <<>> /\ out[1] = PromptLine)

\* A char that is neither whitespace, a digit nor one of + - * / ( ) ;
Unrecognized(c) == ~RefBlank(c) /\ c \notin Digits /\ ~RefKnown(c) /\ c # Cont

\* C8 as claimed: an unrecognized character anywhere in the input ends the
\* program with a fatal lexical error and no result line.
C8_UnrecognizedAnywhere ==
  (Terminated /\ \E i \in 1..Len(InputText) : Unrecognized(InputText[i])) =>
    /\ pc = "panicked"
    /\ panic = LexPanic
    /\ Results = <<>>

RECURSIVE Bytes(_)
\* The bytes of the lines ls that can be read.
Bytes(ls) ==
  IF ls = <<>> THEN <<>>
  ELSE (IF Head(ls) = BadLine THEN <<>> ELSE Head(ls)) \o Bytes(Tail(ls))

\* How many bytes of the input the lexer has advanced over.
Consumed ==
  Len(Bytes(SubSeq(input, 1, LinesRead)))
    - (IF lexer.offset < Len(lexer.buffer) THEN Len(lexer.buffer) - lexer.offset ELSE 0)

\* C8 as amended: an unrecognized character that the lexer has advanced
\* over has ended the program with a fatal lexical error, and no result line
\* is printed.
C8_UnrecognizedReached ==
  (\E i \in 1..Consumed : Unrecognized(Bytes(input)[i])) =>
    /\ pc = "panicked"
    /\ panic = LexPanic
    /\ Results = <<>>

\* 1&2; has ended in the lexer's panic, after the prompt.
C8_Witness ==
  /\ InputIs(<<"1", "&", "2", ";", NL>>)
  /\ Consumed = 2
  /\ pc = "panicked"
  /\ panic = LexPanic
  /\ out = <<PromptLine>>

\* C9 as claimed: once a read has found the input at its end, the program
\* ends with a fatal error and prints no result line.
C9_EndOfInputIsFatal ==
  (Terminated /\ eof) =>
    /\ pc = "panicked"
    /\ Results = <<>>

\* C9 as amended: a read that finds the input at its end leaves the buffer
\* empty, and the program ends with a fatal error and no result line unless
\* no token is asked for after it: the read was made on consuming the last
\* byte of the input as the lookahead ';', '(' or ')' that ends the
\* expression, every token of the input is lexed, and the result is printed.
C9_EndOfInputFatalAtNextToken ==
  (Terminated /\ eof) =>
    /\ lexer.buffer = <<>>
    /\ \/ pc = "panicked" /\ Results = <<>>
       \/ /\ pc = "exit"
          /\ tok \in {Semi, LParen, RParen}
          /\ RefLex(InputText, 1, <<>>).bad = 0
          /\ lexed = InputTokens
          /\ RefToken(InputText[Len(InputText)]) = tok
          /\ Len(Results) = 1

\* 7; with no line break has printed 7 after the read at the end of input.
C9_Witness ==
  /\ InputIs(<<"7", ";">>)
  /\ eof
  /\ pc = "exit"
  /\ Results = << <<"7">> >>

\* C10: once the lexer exists, its buffer is empty or its offset is the
\* index of a byte of the buffer.
C10_OffsetInBuffer ==
  pc # "start" =>
    \/ lexer.buffer = <<>>
    \/ 0 <= lexer.offset /\ lexer.offset < Len(lexer.buffer)

====
